---- MODULE Spec2Model ----
(***************************************************************************)
(* Model of the Connections container of clash-dashboard                   *)
(* (src/containers/Connections/index.tsx): the traffic codec               *)
(* (formatTraffic / parseTraffic), the speed formatter, the sort state     *)
(* machine (handleSort), the derived table rows (data) and the stream      *)
(* handler (handleConnection) that drives the connection store.            *)
(*                                                                         *)
(* The connection store itself (useConnections in ./store) is not part of  *)
(* the sources at hand; feed and toggleSave are modelled from section 4.1  *)
(* of the specification.                                                   *)
(***************************************************************************)
EXTENDS Integers, Sequences, FiniteSets, TLC

(***************************************************************************)
(* JavaScript numbers.  Byte counts are non-negative integers below 2^53.  *)
(* A count is held as its base-1024 digits, least significant first and    *)
(* without leading zero digits (zero is the empty sequence), so that       *)
(* counts beyond the 32-bit range keep their exact value: dividing by 1024 *)
(* is exact in binary floating point and is a shift of the digits.         *)
(***************************************************************************)
Radix == 1024

RECURSIVE NatToNum(_)
NatToNum(n) == IF n = 0 THEN <<>> ELSE <<n % Radix>> \o NatToNum(n \div Radix)

\* floor(s / 1024^k)
Shr(s, k) == IF k >= Len(s) THEN <<>> ELSE SubSeq(s, k + 1, Len(s))

\* s * 1024^k
RECURSIVE Shl(_, _)
Shl(s, k) == IF k <= 0 \/ s = <<>> THEN s ELSE Shl(<<0>> \o s, k - 1)

\* s mod 1024^k, as exactly k digits
LowDigits(s, k) == [i \in 1..k |-> IF i <= Len(s) THEN s[i] ELSE 0]

\* s + 1
RECURSIVE NumInc(_)
NumInc(s) ==
    IF s = <<>> THEN <<1>>
    ELSE IF Head(s) + 1 < Radix THEN <<Head(s) + 1>> \o Tail(s)
    ELSE <<0>> \o NumInc(Tail(s))

\* the sign of a - b: -1, 0 or 1
RECURSIVE NumCmpFrom(_, _, _)
NumCmpFrom(a, b, i) ==
    IF i = 0 THEN 0
    ELSE IF a[i] < b[i] THEN -1
    ELSE IF a[i] > b[i] THEN 1
    ELSE NumCmpFrom(a, b, i - 1)

NumCmp(a, b) ==
    IF Len(a) < Len(b) THEN -1
    ELSE IF Len(a) > Len(b) THEN 1
    ELSE NumCmpFrom(a, b, Len(a))

(***************************************************************************)
(* ~~v is ToInt32 of v truncated: the low 32 bits.  2^32 = 4 * 1024^3, so  *)
(* the low 32 bits of a count are its digits 1..3 and the low 2 bits of    *)
(* digit 4.  Only the truthiness of ~~v is used by the code.               *)
(***************************************************************************)
Int32Truthy(s) ==
    \/ \E i \in 1..3 : i <= Len(s) /\ s[i] # 0
    \/ Len(s) >= 4 /\ s[4] % 4 # 0

(***************************************************************************)
(* Texts.  A decimal literal is its integer part and its two decimals      *)
(* (NoFrac when it is printed without a decimal point); a traffic text is  *)
(* the list of tokens that split(' ') gives: the literal, then the unit.   *)
(***************************************************************************)
NoFrac == -1

trafficUnit == <<"B", "KB", "MB", "GB", "TB">>

\* trafficUnit[idx] of the code (0-based); past the end it is undefined,
\* which the template literal prints as "undefined"
UnitAt(idx) == IF idx + 1 <= Len(trafficUnit) THEN trafficUnit[idx + 1] ELSE "undefined"

\* floor(100 * F / 1024^k) and the rounding digit, F the low k digits:
\* <<carry, top remainder digit>> of the long multiplication 100 * F
RECURSIVE Times100(_, _, _)
Times100(low, i, carry) ==
    IF i > Len(low) THEN <<carry, 0>>
    ELSE LET t == 100 * low[i] + carry
         IN  IF i = Len(low) THEN <<t \div Radix, t % Radix>>
             ELSE Times100(low, i + 1, t \div Radix)

\* (N / 1024^idx).toFixed(2), idx >= 1: round half up on the exact value
toFixed2(N, idx) ==
    LET m == Times100(LowDigits(N, idx), 1, 0)
        h == m[1] + (IF m[2] >= Radix \div 2 THEN 1 ELSE 0)
    IN  IF h = 100
        THEN [int |-> NumInc(Shr(N, idx)), frac |-> 0]
        ELSE [int |-> Shr(N, idx), frac |-> h]

\* the unit index the while loop of formatTraffic stops at
RECURSIVE formatIdx(_, _)
formatIdx(N, idx) ==
    IF Int32Truthy(Shr(N, idx + 1)) /\ idx < Len(trafficUnit)
    THEN formatIdx(N, idx + 1)
    ELSE idx

formatTraffic(N) ==
    LET idx == formatIdx(N, 0)
    IN  << IF idx = 0 THEN [int |-> N, frac |-> NoFrac] ELSE toFixed2(N, idx),
           UnitAt(idx) >>

\* String.prototype.toUpperCase on the unit tokens that occur
toUpperCase(u) ==
    CASE u = "b" -> "B"
      [] u = "kb" -> "KB"
      [] u = "Kb" -> "KB"
      [] u = "mb" -> "MB"
      [] u = "gb" -> "GB"
      [] u = "tb" -> "TB"
      [] u = "undefined" -> "UNDEFINED"
      [] u = "pb" -> "PB"
      [] u = "bytes" -> "BYTES"
      [] OTHER -> u

\* Array.prototype.indexOf on trafficUnit (0-based, -1 when absent)
unitIndexOf(u) ==
    IF \E i \in 1..Len(trafficUnit) : trafficUnit[i] = u
    THEN (CHOOSE i \in 1..Len(trafficUnit) : trafficUnit[i] = u) - 1
    ELSE -1

\* parseInt(num, 10) of a decimal literal: the digits before the point
parseInt(lit) == lit.int

(***************************************************************************)
(* parseTraffic.  The outcome is a record: kind "number" with the value,   *)
(* or kind "TypeError" when the text has no second token (unit is          *)
(* undefined and unit.toUpperCase() throws).                               *)
(***************************************************************************)
parseTraffic(traffic) ==
    IF Len(traffic) < 2
    THEN [kind |-> "TypeError", value |-> <<>>]
    ELSE LET num == traffic[1]
             unit == traffic[2]
             idx == unitIndexOf(toUpperCase(unit))
             bit == parseInt(num)
         IN  [kind |-> "number", value |-> Shl(bit, idx)]


(***************************************************************************)
(* Strings.  localeCompare orders strings by their place in the locale's   *)
(* collation; Collation lists the strings that occur in that order.        *)
(***************************************************************************)
Collation ==
    << "10.0.0.2:53", "DomainSuffix", "example.com:443", "example.org:80",
       "HTTP", "HTTPS", "id1", "id2", "id3", "Match", "RuleSet(ads)",
       "Socks5", "TCP", "UDP" >>

Rank(s) == CHOOSE i \in 1..Len(Collation) : Collation[i] = s

localeCompare(a, b) == Rank(a) - Rank(b)

\* String.prototype.toUpperCase on the network names that occur
networkUpper(n) == IF n = "tcp" THEN "TCP" ELSE IF n = "udp" THEN "UDP" ELSE n

\* Array.prototype.join(' --> ') of the reversed chain
RECURSIVE joinReversed(_)
joinReversed(chains) ==
    IF chains = <<>> THEN ""
    ELSE IF Len(chains) = 1 THEN chains[1]
    ELSE joinReversed(Tail(chains)) \o " --> " \o Head(chains)

\* RuleType.RuleSet of @models
RuleSet == "RuleSet"

(***************************************************************************)
(* The flows the stream reports: what a connection record carries besides  *)
(* its counters.  start is the flow's establishment time in milliseconds   *)
(* (new Date(start).getTime()).                                            *)
(***************************************************************************)
Ids == <<"id1", "id2", "id3">>

Flow(id) ==
    CASE id = "id1" ->
           [id |-> "id1", start |-> 2000,
            metadata |-> [host |-> "example.com", destinationIP |-> "93.184.216.34",
                          destinationPort |-> "443", type |-> "HTTPS", network |-> "tcp"],
            chains |-> <<"DIRECT">>, rule |-> "DomainSuffix", rulePayload |-> "example.com"]
      [] id = "id2" ->
           [id |-> "id2", start |-> 1000,
            metadata |-> [host |-> "", destinationIP |-> "10.0.0.2",
                          destinationPort |-> "53", type |-> "Socks5", network |-> "udp"],
            chains |-> <<"ProxyA", "Auto">>, rule |-> "RuleSet", rulePayload |-> "ads"]
      [] id = "id3" ->
           [id |-> "id3", start |-> 1000,
            metadata |-> [host |-> "example.org", destinationIP |-> "93.184.216.35",
                          destinationPort |-> "80", type |-> "HTTP", network |-> "tcp"],
            chains |-> <<"DIRECT">>, rule |-> "Match", rulePayload |-> ""]

\* a connection record as a snapshot carries it
Incoming(id, up, down) ==
    [id |-> id, flow |-> Flow(id), upload |-> up, download |-> down]

ZeroSpeed == [upload |-> 0, download |-> 0]

\* a connection record as the store holds it
Stored(c, speed, completed) ==
    [id |-> c.id, flow |-> c.flow, upload |-> c.upload, download |-> c.download,
     speed |-> speed, completed |-> completed]

IdsOf(seq) == {seq[i].id : i \in 1..Len(seq)}

Find(seq, id) == seq[CHOOSE i \in 1..Len(seq) : seq[i].id = id]


(***************************************************************************)
(* The connection store (useConnections), after section 4.1 of the         *)
(* specification: feed reconciles one snapshot's connection list with the  *)
(* stored records; toggleSave flips the retention flag.                    *)
(***************************************************************************)
\* the difference as it is
Max0Raw(x) == x

Max0(x) == IF x > 0 THEN x ELSE 0

\* step 3 taking a completed record for a live one
UpsertReopen(store, c) ==
    IF c.id \notin IdsOf(store)
    THEN Append(store, Stored(c, ZeroSpeed, FALSE))
    ELSE [i \in 1..Len(store) |->
            IF store[i].id # c.id THEN store[i]
            ELSE Stored(c, [upload |-> Max0(c.upload - store[i].upload),
                            download |-> Max0(c.download - store[i].download)],
                        FALSE)]

\* step 3, for one incoming record
Upsert(store, c) ==
    IF c.id \notin IdsOf(store)
    THEN Append(store, Stored(c, ZeroSpeed, FALSE))
    ELSE [i \in 1..Len(store) |->
            IF store[i].id # c.id \/ store[i].completed THEN store[i]
            ELSE Stored(c, [upload |-> Max0(c.upload - store[i].upload),
                            download |-> Max0(c.download - store[i].download)],
                        FALSE)]

RECURSIVE UpsertAll(_, _)
UpsertAll(store, incoming) ==
    IF incoming = <<>> THEN store
    ELSE UpsertAll(Upsert(store, Head(incoming)), Tail(incoming))

\* step 4: the known, non-completed ids that the snapshot lacks are completed
MarkCompleted(store, incoming) ==
    [i \in 1..Len(store) |->
        IF store[i].completed \/ store[i].id \in IdsOf(incoming) THEN store[i]
        ELSE [store[i] EXCEPT !.completed = TRUE, !.speed = ZeroSpeed]]

NotCompleted(c) == ~c.completed

\* step 5: without retention the completed records are removed
Purge(store) == SelectSeq(store, NotCompleted)

\* feed without step 5
feedNoPurge(store, retain, incoming) ==
    MarkCompleted(UpsertAll(store, incoming), incoming)

feed(store, retain, incoming) ==
    LET marked == MarkCompleted(UpsertAll(store, incoming), incoming)
    IN  IF retain THEN marked ELSE Purge(marked)

\* toggleRetention that only flips the flag
toggleSaveKeep(store, retain) == [save |-> ~retain, connections |-> store]

\* toggleRetention: flips the flag; true -> false purges the completed records
toggleSave(store, retain) ==
    [save |-> ~retain,
     connections |-> IF retain THEN Purge(store) ELSE store]

\* the base comparator without its completed test
baseCompareByStart(a, b) ==
    LET diffTime == a.flow.start - b.flow.start
    IN  IF diffTime # 0 THEN diffTime ELSE localeCompare(a.id, b.id)

\* the comparator of connections.sort: > 0 when a goes after b
baseCompare(a, b) ==
    IF a.completed # b.completed
    THEN (IF a.completed THEN 1 ELSE -1)
    ELSE LET diffTime == a.flow.start - b.flow.start
         IN  IF diffTime # 0 THEN diffTime ELSE localeCompare(a.id, b.id)

\* one "<arrow> <traffic>/s" part of a speed text
SpeedPart(arrow, rate) ==
    [arrow |-> arrow, traffic |-> formatTraffic(NatToNum(rate)), per |-> "/s"]

\* a speed text that prints both parts whenever a rate is not zero
formatSpeedBothParts(upload, download) ==
    IF upload = 0 /\ download = 0 THEN [text |-> "-", parts |-> <<>>]
    ELSE [text |-> "", parts |-> <<SpeedPart("up", upload), SpeedPart("down", download)>>]

\* the speed text: "-" alone, or its parts in order
formatSpeed(upload, download) ==
    CASE upload = 0 /\ download = 0 -> [text |-> "-", parts |-> <<>>]
      [] upload # 0 /\ download # 0 ->
           [text |-> "", parts |-> <<SpeedPart("up", upload), SpeedPart("down", download)>>]
      [] upload # 0 /\ download = 0 ->
           [text |-> "", parts |-> <<SpeedPart("up", upload)>>]
      [] OTHER ->
           [text |-> "", parts |-> <<SpeedPart("down", download)>>]

\* the row of one connection (time, which reads the clock, is left out)
Row(c) ==
    [id |-> c.id,
     host |-> (IF c.flow.metadata.host # "" THEN c.flow.metadata.host
               ELSE c.flow.metadata.destinationIP)
              \o ":" \o c.flow.metadata.destinationPort,
     chains |-> joinReversed(c.flow.chains),
     rule |-> IF c.flow.rule = RuleSet
              THEN c.flow.rule \o "(" \o c.flow.rulePayload \o ")"
              ELSE c.flow.rule,
     upload |-> formatTraffic(NatToNum(c.upload)),
     download |-> formatTraffic(NatToNum(c.download)),
     type |-> c.flow.metadata.type,
     network |-> networkUpper(c.flow.metadata.network),
     speed |-> formatSpeed(c.speed.upload, c.speed.download),
     completed |-> c.completed]

Rows(seq) == [i \in 1..Len(seq) |-> Row(seq[i])]

\* a[column] of a row
Cell(row, column) ==
    CASE column = "host" -> row.host
      [] column = "network" -> row.network
      [] column = "type" -> row.type
      [] column = "rule" -> row.rule
      [] column = "upload" -> row.upload
      [] column = "download" -> row.download
      [] column = "chains" -> row.chains

\* the comparator of the second sort, under the sort state st
userCompare(st, a, b) ==
    LET column == st.column
    IN  IF column = "" THEN 0
        ELSE LET aValue == Cell(a, column)
                 bValue == Cell(b, column)
             IN  IF column = "download" \/ column = "upload"
                 THEN LET aSpeed == parseTraffic(aValue).value
                          bSpeed == parseTraffic(bValue).value
                      IN  IF st.asc THEN NumCmp(aSpeed, bSpeed)
                          ELSE NumCmp(bSpeed, aSpeed)
                 ELSE IF st.asc THEN localeCompare(aValue, bValue)
                      ELSE localeCompare(bValue, aValue)

Compare(cmp, a, b) ==
    IF cmp.kind = "base" THEN baseCompare(a, b) ELSE userCompare(cmp.sort, a, b)

(***************************************************************************)
(* Array.prototype.sort: a stable sort by a comparator (ECMAScript 2019).  *)
(* The comparator is named by cmp: the base comparator of                  *)
(* connections.sort, or the user comparator under a sort state.            *)
(***************************************************************************)
RECURSIVE InsertSorted(_, _, _)
InsertSorted(sorted, x, cmp) ==
    IF sorted = <<>> THEN <<x>>
    ELSE IF Compare(cmp, sorted[Len(sorted)], x) > 0
         THEN Append(InsertSorted(SubSeq(sorted, 1, Len(sorted) - 1), x, cmp),
                     sorted[Len(sorted)])
         ELSE Append(sorted, x)

RECURSIVE StableSort(_, _)
StableSort(seq, cmp) ==
    IF seq = <<>> THEN <<>>
    ELSE InsertSorted(StableSort(SubSeq(seq, 1, Len(seq) - 1), cmp),
                      seq[Len(seq)], cmp)

BaseSorted(conns) == StableSort(conns, [kind |-> "base"])

\* the memoised rows: base sort (in place), projection, user sort
dataOf(conns, st) ==
    StableSort(Rows(BaseSorted(conns)), [kind |-> "user", sort |-> st])


(***************************************************************************)
(* The state of the mounted component.                                     *)
(***************************************************************************)
VARIABLES
    connections,  \* the array useConnections returns
    save,         \* the retention flag (keep closed connections)
    traffic,      \* [uploadTotal, downloadTotal]
    sort,         \* [column, asc]
    pending,      \* the state update whose re-render is pending, or "none"
    todo,         \* the snapshots of the current batch still to handle
    watch,        \* history: the connection id whose snapshots are recorded
    hist,         \* history: what the snapshots said about watch
    present,      \* history: the ids of the last snapshot processed
    streak,       \* history: the run of selections of one column from no sort
    codec,        \* the traffic codec applied to one input
    mounted,      \* whether the component is mounted
    effects,      \* the runs of the stream effect, in order; the last is current
    last,         \* history: the last snapshot handled and what it met
    lastClick     \* history: what the last header click did

vars == <<connections, save, traffic, sort, pending, todo,
          watch, hist, present, streak, codec, mounted, effects, last, lastClick>>

Columns == {"host", "network", "type", "chains", "rule", "speed", "upload", "download", "time"}

\* every column taken for sortable
sortableColumnsAll == Columns

sortableColumns == {"host", "network", "type", "rule", "upload", "download"}

(***************************************************************************)
(* The inputs of the stream: batches of at most MaxBatch snapshots, each   *)
(* with totals and the connections of some of the StreamIds.  The watched  *)
(* id reports any counters in 0..MaxBytes; the other ids report fresh      *)
(* counters only.                                                          *)
(***************************************************************************)
MaxBatch == 2
MaxBytes == 1

StreamIds == <<"id1", "id2">>

Totals == {<<1, 2>>, <<2, 1>>}

None == <<>>

\* per id: no record (None) or the counters <<upload, download>>
Readings(id) ==
    IF id = watch THEN {None} \cup ((0..MaxBytes) \X (0..MaxBytes))
    ELSE {None, <<0, 0>>}

RECURSIVE ConnectionLists(_)
ConnectionLists(ids) ==
    IF ids = <<>> THEN {<<>>}
    ELSE {(IF r = None THEN <<>> ELSE <<Incoming(Head(ids), r[1], r[2])>>) \o rest :
            r \in Readings(Head(ids)), rest \in ConnectionLists(Tail(ids))}

Snapshots ==
    {[uploadTotal |-> t[1], downloadTotal |-> t[2], connections |-> cs] :
        t \in Totals, cs \in ConnectionLists(StreamIds)}

(***************************************************************************)
(* handleConnection: for each snapshot of the batch, in array order,       *)
(* setTraffic with its totals and feed its connections.  The loop is       *)
(* modelled pass by pass: a batch of n snapshots arrives (todo = n), each  *)
(* pass handles the next snapshot, and no other handler runs before the    *)
(* loop ends.                                                              *)
(***************************************************************************)
\* the loop body without its feed call
handleSnapshotNoFeed(st, retain, snapshot) ==
    [traffic |-> [uploadTotal |-> snapshot.uploadTotal,
                  downloadTotal |-> snapshot.downloadTotal],
     connections |-> st.connections]

\* the loop body feeding only snapshots that list a connection
handleSnapshotSkipEmpty(st, retain, snapshot) ==
    [traffic |-> [uploadTotal |-> snapshot.uploadTotal,
                  downloadTotal |-> snapshot.downloadTotal],
     connections |-> IF snapshot.connections = <<>> THEN st.connections
                     ELSE feed(st.connections, retain, snapshot.connections)]

\* the loop body adding the snapshot's totals to the totals held
handleSnapshotAddTotals(st, retain, snapshot) ==
    [traffic |-> [uploadTotal |-> st.traffic.uploadTotal + snapshot.uploadTotal,
                  downloadTotal |-> st.traffic.downloadTotal + snapshot.downloadTotal],
     connections |-> feed(st.connections, retain, snapshot.connections)]

\* the loop body, on st = [traffic, connections]
handleSnapshot(st, retain, snapshot) ==
    [traffic |-> [uploadTotal |-> snapshot.uploadTotal,
                  downloadTotal |-> snapshot.downloadTotal],
     connections |-> feed(st.connections, retain, snapshot.connections)]

(***************************************************************************)
(* History of one id over the snapshots: last is its counters in the most  *)
(* recent snapshot that contained it, prev its counters in the one before  *)
(* that (kept while the last snapshot contains it), inLast whether the     *)
(* last snapshot contained it, gap whether a snapshot lacked it after one  *)
(* contained it, mono whether its counters never decreased.  Once the      *)
(* counters have decreased nothing more is recorded.                       *)
(***************************************************************************)
NoHist == [last |-> None, prev |-> None, inLast |-> FALSE,
           mono |-> TRUE, gap |-> FALSE]

Decreased == [NoHist EXCEPT !.mono = FALSE]

Observe(h, id, snapshot) ==
    IF ~h.mono THEN h
    ELSE IF id \in IdsOf(snapshot.connections)
    THEN LET c == Find(snapshot.connections, id)
             now == <<c.upload, c.download>>
         IN  IF h.last = None \/ (now[1] >= h.last[1] /\ now[2] >= h.last[2])
             THEN [h EXCEPT !.last = now, !.prev = h.last, !.inLast = TRUE]
             ELSE Decreased
    ELSE [h EXCEPT !.inLast = FALSE, !.prev = None,
                   !.gap = h.gap \/ h.last # None]

\* history: the last snapshot handled, the counters of it that were lower
\* than those of the known, non-completed record of their id, and the
\* completed records whose id it listed
NoSnapshot ==
    [seen |-> FALSE, uploadTotal |-> 0, downloadTotal |-> 0, connections |-> <<>>,
     lower |-> {}, again |-> {}]

Met(store, snapshot) ==
    LET inc == snapshot.connections
        Known(i) == inc[i].id \in IdsOf(store) /\ ~Find(store, inc[i].id).completed
    IN  [seen |-> TRUE,
         uploadTotal |-> snapshot.uploadTotal,
         downloadTotal |-> snapshot.downloadTotal,
         connections |-> inc,
         lower |-> {<<inc[i].id, "upload">> :
                       i \in {j \in 1..Len(inc) :
                                Known(j) /\ inc[j].upload < Find(store, inc[j].id).upload}}
                   \cup
                   {<<inc[i].id, "download">> :
                       i \in {j \in 1..Len(inc) :
                                Known(j) /\ inc[j].download < Find(store, inc[j].id).download}},
         again |-> {store[i] : i \in {j \in 1..Len(store) :
                                        store[j].completed /\ store[j].id \in IdsOf(inc)}}]

(***************************************************************************)
(* The stream effect (useLayoutEffect).  Each run of the effect has its    *)
(* own streamReader, null until the awaited getConnectionStreamReader()    *)
(* resolves; the continuation then keeps the reader and subscribes         *)
(* handleConnection.  The cleanup of a run unsubscribes and destroys the   *)
(* reader when streamReader is set, and does nothing when it is null.      *)
(* The effect runs on mount and again when its dependencies change (the    *)
(* cleanup of the run before comes first); unmounting runs the cleanup of  *)
(* the current run.                                                        *)
(***************************************************************************)
MaxEffects == 2

NewEffect ==
    [streamReader |-> "null", acquisition |-> "pending",
     subscribed |-> FALSE, destroyed |-> FALSE, cleaned |-> FALSE]

\* the continuation of the await: keep the reader, subscribe the handler
subscribe(e) ==
    [e EXCEPT !.acquisition = "resolved", !.streamReader = "reader",
              !.subscribed = TRUE]

\* a cleanup that releases nothing
cleanupNoRelease(e) == [e EXCEPT !.cleaned = TRUE]

\* the function the effect returns
cleanup(e) ==
    IF e.streamReader # "null"
    THEN [e EXCEPT !.subscribed = FALSE, !.destroyed = TRUE, !.cleaned = TRUE]
    ELSE [e EXCEPT !.cleaned = TRUE]

\* some run's handler is subscribed to a reader that is open
Delivering ==
    /\ mounted
    /\ \E i \in 1..Len(effects) : effects[i].subscribed /\ ~effects[i].destroyed

\* getConnectionStreamReader() of run i resolves
Resolve(i) ==
    /\ effects[i].acquisition = "pending"
    /\ todo = 0
    /\ effects' = [effects EXCEPT ![i] = subscribe(@)]
    /\ UNCHANGED <<connections, save, traffic, sort, pending, todo,
                   watch, hist, present, streak, codec, mounted, last, lastClick>>

\* getConnectionStreamReader() of run i rejects: the async function stops at
\* the await and its promise, which nothing handles, rejects
Reject(i) ==
    /\ effects[i].acquisition = "pending"
    /\ todo = 0
    /\ effects' = [effects EXCEPT ![i].acquisition = "rejected"]
    /\ UNCHANGED <<connections, save, traffic, sort, pending, todo,
                   watch, hist, present, streak, codec, mounted, last, lastClick>>

\* the component unmounts: the cleanup of the current run
Unmount ==
    /\ mounted
    /\ todo = 0
    /\ mounted' = FALSE
    /\ effects' = [effects EXCEPT ![Len(effects)] = cleanup(@)]
    /\ UNCHANGED <<connections, save, traffic, sort, pending, todo,
                   watch, hist, present, streak, codec, last, lastClick>>

\* feed or setTraffic changed: the cleanup of the current run, then a new run
Rerun ==
    /\ mounted
    /\ todo = 0
    /\ Len(effects) < MaxEffects
    /\ effects' = Append([effects EXCEPT ![Len(effects)] = cleanup(@)], NewEffect)
    /\ UNCHANGED <<connections, save, traffic, sort, pending, todo,
                   watch, hist, present, streak, codec, mounted, last, lastClick>>

\* a batch of n snapshots arrives; an empty one sets no state
HandleConnection(n) ==
    /\ Delivering
    /\ pending = "none"
    /\ todo = 0
    /\ todo' = n
    /\ UNCHANGED <<connections, save, traffic, sort, pending,
                   watch, hist, present, streak, codec,
                   mounted, effects, last, lastClick>>

\* one pass of the loop, on the next snapshot of the batch
LoopPass(snapshot) ==
    /\ todo > 0
    /\ LET st == handleSnapshot([traffic |-> traffic, connections |-> connections],
                                save, snapshot)
       IN  /\ traffic' = st.traffic
           /\ connections' = st.connections
    /\ hist' = Observe(hist, watch, snapshot)
    /\ present' = IdsOf(snapshot.connections)
    /\ last' = Met(connections, snapshot)
    /\ todo' = todo - 1
    /\ pending' = "feed"
    /\ UNCHANGED <<save, sort, watch, streak, codec, mounted, effects, lastClick>>

ToggleSave ==
    /\ pending = "none"
    /\ todo = 0
    /\ LET r == toggleSave(connections, save)
       IN  /\ save' = r.save
           /\ connections' = r.connections
    /\ pending' = "toggleSave"
    /\ UNCHANGED <<traffic, sort, todo, watch, hist, present, streak, codec,
                   mounted, effects, last, lastClick>>

(***************************************************************************)
(* handleSort, on the sort state st.  setSort(key, value) sets one field,  *)
(* setSort(object) sets the fields of the object.                          *)
(***************************************************************************)
\* handleSort flipping the direction where the code clears the sort
handleSortFlip(st, column) ==
    IF column = st.column
    THEN [st EXCEPT !.asc = ~st.asc]
    ELSE [st EXCEPT !.column = column]

\* handleSort clearing the column only where the code resets the sort
handleSortClearColumn(st, column) ==
    IF column = st.column
    THEN IF st.asc
         THEN [st EXCEPT !.asc = FALSE]
         ELSE [st EXCEPT !.column = ""]
    ELSE [st EXCEPT !.column = column]

handleSort(st, column) ==
    IF column = st.column
    THEN IF st.asc
         THEN [st EXCEPT !.asc = FALSE]
         ELSE [column |-> "", asc |-> TRUE]
    ELSE [st EXCEPT !.column = column]

\* history: n selections in a row of column col, the first from no sort
Selected(k, st, column) ==
    IF st.column = "" THEN [col |-> column, n |-> 1]
    ELSE IF k.col = column /\ k.n \in {1, 2} THEN [col |-> column, n |-> k.n + 1]
    ELSE [col |-> column, n |-> 0]

\* a click on the header of column id: handleSort when sortable, else noop
HandleClick(id) ==
    /\ pending = "none"
    /\ todo = 0
    /\ IF id \in sortableColumns
       THEN /\ sort' = handleSort(sort, id)
            /\ streak' = Selected(streak, sort, id)
            /\ pending' = "handleSort"
            /\ lastClick' = "handleSort"
       ELSE /\ lastClick' = "noop"
            /\ UNCHANGED <<sort, streak, pending>>
    /\ UNCHANGED <<connections, save, traffic, todo, watch, hist, present, codec,
                   mounted, effects, last>>

\* the re-render: useMemo recomputes data, and connections.sort sorts the
\* store's array in place
Render ==
    /\ mounted
    /\ pending # "none"
    /\ todo = 0
    /\ connections' = BaseSorted(connections)
    /\ pending' = "none"
    /\ UNCHANGED <<save, traffic, sort, todo, watch, hist, present, streak, codec,
                   mounted, effects, last, lastClick>>

NoOutcome == [kind |-> "none", value |-> <<>>]

NoSpeed == [text |-> "", parts |-> <<>>]

CodecIdle ==
    [pc |-> "idle", src |-> "none", x |-> <<>>, text |-> <<>>, out |-> NoOutcome,
     rates |-> <<0, 0>>, speed |-> NoSpeed]

\* the rows on display once the pending re-render is done
data == dataOf(connections, sort)

Init ==
    /\ connections = <<>>
    /\ save \in BOOLEAN
    /\ traffic = [uploadTotal |-> 0, downloadTotal |-> 0]
    /\ sort = [column |-> "", asc |-> TRUE]
    /\ pending = "none"
    /\ todo = 0
    /\ watch \in {StreamIds[i] : i \in 1..Len(StreamIds)}
    /\ hist = NoHist
    /\ present = {}
    /\ streak = [col |-> "", n |-> 0]
    /\ codec = CodecIdle
    /\ mounted = TRUE
    /\ effects = <<NewEffect>>
    /\ last = NoSnapshot
    /\ lastClick = "none"

\* the next pass of the loop, on any snapshot
Loop == \E s \in Snapshots : LoopPass(s)

Next ==
    \/ Resolve(1)
    \/ \E n \in 0..MaxBatch : HandleConnection(n)
    \/ Loop
    \/ ToggleSave
    \/ Render

Spec == Init /\ [][Next]_vars


(***************************************************************************)
(* The life of the stream effect: the acquisition resolves or rejects, the *)
(* effect re-runs, the component unmounts, in any order, while the         *)
(* subscribed handler receives batches.  The snapshots list connections    *)
(* with fresh counters only.                                               *)
(***************************************************************************)
LifeSnapshots ==
    {s \in Snapshots :
        /\ s.uploadTotal = 1
        /\ \A i \in 1..Len(s.connections) :
              s.connections[i].upload = 0 /\ s.connections[i].download = 0}

LoopLife == \E s \in LifeSnapshots : LoopPass(s)

Resolved == \E i \in 1..Len(effects) : Resolve(i)

Rejected == \E i \in 1..Len(effects) : Reject(i)

NextLife ==
    \/ Resolved
    \/ Rejected
    \/ Rerun
    \/ Unmount
    \/ \E n \in 0..MaxBatch : HandleConnection(n)
    \/ LoopLife
    \/ Render

SpecLife == Init /\ [][NextLife]_vars


(***************************************************************************)
(* The view alone: the store holds the connections of a first batch (some  *)
(* of them closed since, when closed connections are kept) and the user    *)
(* clicks column headers.  Counters are drawn from ViewCounters.           *)
(***************************************************************************)
ViewCounters == {<<9, 1536>>, <<1024, 9>>, <<1536, 1024>>}

\* per id: no record, or an active or completed record with its counters
ViewRecords(id) ==
    {<<>>} \cup
    {<<Stored(Incoming(id, r[1], r[2]), ZeroSpeed, done)>> :
        r \in ViewCounters, done \in BOOLEAN}

RECURSIVE ViewStoresOf(_)
ViewStoresOf(ids) ==
    IF ids = <<>> THEN {<<>>}
    ELSE {rec \o rest : rec \in ViewRecords(Head(ids)), rest \in ViewStoresOf(Tail(ids))}

Reverse(seq) == [i \in 1..Len(seq) |-> seq[Len(seq) + 1 - i]]

\* in the order the records were inserted: by id, either way round
ViewStores == ViewStoresOf(Ids) \cup {Reverse(st) : st \in ViewStoresOf(Ids)}

InitView ==
    /\ connections \in ViewStores
    /\ save = (\E i \in 1..Len(connections) : connections[i].completed)
    /\ traffic = [uploadTotal |-> 1, downloadTotal |-> 2]
    /\ sort = [column |-> "", asc |-> TRUE]
    /\ pending = "feed"
    /\ todo = 0
    /\ watch = Ids[1]
    /\ hist = NoHist
    /\ present = {}
    /\ streak = [col |-> "", n |-> 0]
    /\ codec = CodecIdle
    /\ mounted = TRUE
    /\ effects = <<subscribe(NewEffect)>>
    /\ last = NoSnapshot
    /\ lastClick = "none"

NextView ==
    \/ \E id \in Columns : HandleClick(id)
    \/ Render

SpecView == InitView /\ [][NextView]_vars

(***************************************************************************)
(* The traffic codec alone: a byte count is formatted and the text parsed  *)
(* back, or a text is parsed.                                              *)
(***************************************************************************)
MaxCodecBytes == 2100

\* counts around the unit boundaries and beyond the 32-bit range
CodecSamples ==
    { <<1023, 9>>, <<0, 10>>, <<1023, 1023>>, <<0, 0, 1>>, <<0, 512, 1>>,
      <<1023, 1023, 1023>>, <<0, 0, 0, 1>>, <<0, 0, 512, 2>>, <<0, 0, 0, 4>>,
      <<0, 0, 0, 0, 1>>, <<0, 0, 0, 0, 4>>, <<0, 0, 0, 512, 1023>>,
      <<1023, 1023, 1023, 1023, 1023>>, <<0, 0, 0, 0, 0, 1>>,
      <<0, 1, 0, 0, 0, 1>>, <<0, 0, 0, 0, 512, 7>> }

CodecInputs == {NatToNum(n) : n \in 0..MaxCodecBytes} \cup CodecSamples

CodecLiterals ==
    {[int |-> NatToNum(n), frac |-> f] : n \in {0, 5, 12}, f \in {NoFrac, 0, 50}}

CodecUnits == {"B", "KB", "MB", "GB", "TB", "b", "kb", "Kb", "mb", "gb", "tb",
               "PB", "pb", "bytes", "undefined", ""}

\* upload and download rates, in bytes per second
CodecRates == {0, 1, 100, 1024, 1536}

\* texts with a unit token, and texts without one
CodecTexts ==
    {<<lit, u>> : lit \in CodecLiterals, u \in CodecUnits}
    \cup {<<lit>> : lit \in CodecLiterals}

InitCodec ==
    /\ connections = <<>>
    /\ save = FALSE
    /\ traffic = [uploadTotal |-> 0, downloadTotal |-> 0]
    /\ sort = [column |-> "", asc |-> TRUE]
    /\ pending = "none"
    /\ todo = 0
    /\ watch = Ids[1]
    /\ hist = NoHist
    /\ present = {}
    /\ streak = [col |-> "", n |-> 0]
    /\ mounted = TRUE
    /\ effects = <<NewEffect>>
    /\ last = NoSnapshot
    /\ lastClick = "none"
    /\ \/ \E x \in CodecInputs :
            codec = [CodecIdle EXCEPT !.pc = "input", !.src = "bytes", !.x = x]
       \/ \E t \in CodecTexts :
            codec = [CodecIdle EXCEPT !.pc = "text", !.src = "text", !.text = t]
       \/ \E r \in CodecRates \X CodecRates :
            codec = [CodecIdle EXCEPT !.pc = "rates", !.src = "rates", !.rates = r]

CodecFormat ==
    /\ codec.pc = "input"
    /\ codec' = [codec EXCEPT !.pc = "text", !.text = formatTraffic(codec.x)]
    /\ UNCHANGED <<connections, save, traffic, sort, pending, todo,
                   watch, hist, present, streak, mounted, effects, last, lastClick>>

CodecParse ==
    /\ codec.pc = "text"
    /\ codec' = [codec EXCEPT !.pc = "parsed", !.out = parseTraffic(codec.text)]
    /\ UNCHANGED <<connections, save, traffic, sort, pending, todo,
                   watch, hist, present, streak, mounted, effects, last, lastClick>>

CodecSpeed ==
    /\ codec.pc = "rates"
    /\ codec' = [codec EXCEPT !.pc = "speed",
                              !.speed = formatSpeed(codec.rates[1], codec.rates[2])]
    /\ UNCHANGED <<connections, save, traffic, sort, pending, todo,
                   watch, hist, present, streak, mounted, effects, last, lastClick>>

NextCodec == CodecFormat \/ CodecParse \/ CodecSpeed

SpecCodec == InitCodec /\ [][NextCodec]_vars


(***************************************************************************)
(* Properties of the store and the stream handler (Spec).                  *)
(***************************************************************************)
Delta(now, before) == [upload |-> now[1] - before[1], download |-> now[2] - before[2]]

\* the speed the snapshots call for: zero at the first snapshot with the id,
\* then the difference to the previous snapshot with it
ExpectedSpeed == IF hist.prev = None THEN ZeroSpeed ELSE Delta(hist.last, hist.prev)

AbsentAreCompleted ==
    \A i \in 1..Len(connections) :
        connections[i].id \notin present => connections[i].completed

\* a completed record that stays in the store stays completed
NoRevert ==
    \A i \in 1..Len(connections) :
        (connections[i].completed /\ connections[i].id \in IdsOf(connections'))
            => Find(connections', connections[i].id).completed

\* C2: after a snapshot that lacks a known id, the id's record, while it is
\* stored, is completed, and no step turns completed back to false.
C2_CompletedStays == [][AbsentAreCompleted' /\ NoRevert]_vars

C2_Witness ==
    /\ hist.last # None /\ ~hist.inLast
    /\ watch \in IdsOf(connections)
    /\ Find(connections, watch).completed
    /\ \E i \in 1..Len(connections) : ~connections[i].completed

\* C3: while retention is off the store holds no completed connection (a
\* feed that completes a connection removes it before it returns).
C3_NoCompletedWithoutRetention ==
    ~save => \A i \in 1..Len(connections) : ~connections[i].completed

C3_Witness ==
    /\ ~save /\ pending = "feed"
    /\ hist.last # None /\ ~hist.inLast
    /\ watch \notin IdsOf(connections)
    /\ connections # <<>>

\* C4: toggling retention off removes every completed connection in that
\* step and leaves the others, and their order, as they were.
C4_TogglePurges ==
    [][(pending = "none" /\ pending' = "toggleSave" /\ save)
        => /\ save' = FALSE
           /\ \A i \in 1..Len(connections') : ~connections'[i].completed
           /\ IdsOf(connections') =
                {connections[i].id : i \in {j \in 1..Len(connections) :
                                              ~connections[j].completed}}
           /\ \A i \in 1..Len(connections') :
                connections'[i] = Find(connections, connections'[i].id)]_vars

C4_Witness ==
    /\ pending = "toggleSave" /\ ~save
    /\ hist.inLast /\ hist.gap
    /\ watch \notin IdsOf(connections)
    /\ connections # <<>>

\* C13: the totals held are those of the last snapshot handled, whatever the
\* snapshots before it and the connections stored, and (0, 0) before any
\* snapshot.
C13_TotalsOverwritten ==
    traffic = [uploadTotal |-> last.uploadTotal, downloadTotal |-> last.downloadTotal]

C13_Witness ==
    /\ todo = 0 /\ pending = "feed" /\ last.seen
    /\ hist.prev = <<0, 0>> /\ hist.last = <<1, 1>>
    /\ traffic = [uploadTotal |-> 2, downloadTotal |-> 1]

\* C14: no stored speed is negative; and after a snapshot in which a counter
\* of a known, non-completed connection is lower than the stored one, the
\* record holds the incoming counters, is not completed, and that component
\* of its speed is 0.
C14_RegressionClamped ==
    /\ \A i \in 1..Len(connections) :
          connections[i].speed.upload >= 0 /\ connections[i].speed.download >= 0
    /\ pending = "feed" =>
          \A p \in last.lower :
              /\ p[1] \in IdsOf(connections)
              /\ LET rec == Find(connections, p[1])
                     inc == Find(last.connections, p[1])
                 IN  /\ ~rec.completed
                     /\ rec.upload = inc.upload /\ rec.download = inc.download
                     /\ p[2] = "upload" => rec.speed.upload = 0
                     /\ p[2] = "download" => rec.speed.download = 0

C14_Witness ==
    /\ pending = "feed"
    /\ last.lower = {<<watch, "upload">>}
    /\ watch \in IdsOf(connections)
    /\ Find(connections, watch).upload = 0
    /\ Find(connections, watch).download = 1
    /\ Find(connections, watch).speed = [upload |-> 0, download |-> 1]

\* C15: with retention on, after a snapshot that lists the id of a completed
\* record, the store holds that record as it was, and no other record of
\* that id.
C15_CompletedUntouched ==
    (pending = "feed" /\ save)
        => \A r \in last.again :
              /\ Cardinality({i \in 1..Len(connections) : connections[i].id = r.id}) = 1
              /\ Find(connections, r.id) = r
              /\ r.completed /\ r.speed = ZeroSpeed

C15_Witness ==
    /\ pending = "feed" /\ save
    /\ \E r \in last.again : r.id = watch /\ r.upload = 1
    /\ Find(last.connections, watch).upload = 0
    /\ Find(connections, watch).upload = 1
    /\ Find(connections, watch).completed

(***************************************************************************)
(* Properties of the view and the sort state (SpecView).                   *)
(***************************************************************************)
RowStart(row) == Find(connections, row.id).flow.start

\* row a may stand before row b in the default order
DefaultOrdered(a, b) ==
    IF a.completed # b.completed THEN ~a.completed
    ELSE \/ RowStart(a) < RowStart(b)
         \/ RowStart(a) = RowStart(b) /\ Rank(a.id) < Rank(b.id)

\* C5: with no sort column, once rendered, the rows stand active before
\* completed, and within each group by ascending start, then ascending id.
C5_DefaultOrder ==
    (pending = "none" /\ sort.column = "")
        => /\ Len(data) = Len(connections)
           /\ \A i, j \in 1..Len(data) : i < j => DefaultOrdered(data[i], data[j])

C5_Witness ==
    /\ pending = "none" /\ sort.column = ""
    /\ Len(data) = 3
    /\ data[1].id = "id3" /\ ~data[1].completed
    /\ data[2].id = "id1" /\ ~data[2].completed
    /\ data[3].id = "id2" /\ data[3].completed

RowBytes(row, column) ==
    IF column = "upload" THEN Find(connections, row.id).upload
    ELSE Find(connections, row.id).download

\* C6: sorted by upload or download, once rendered, no row stands before a
\* row with a smaller byte count (ascending) or a larger one (descending).
C6_NumericOrder ==
    (pending = "none" /\ sort.column \in {"upload", "download"})
        => \A i, j \in 1..Len(data) :
              i < j => IF sort.asc
                       THEN RowBytes(data[i], sort.column) <= RowBytes(data[j], sort.column)
                       ELSE RowBytes(data[i], sort.column) >= RowBytes(data[j], sort.column)

\* C7: selecting a sortable column other than the sorted one gives that
\* column, ascending.
C7_OtherColumnAscending ==
    [][(pending = "none" /\ pending' = "handleSort" /\ streak'.col # sort.column)
        => sort' = [column |-> streak'.col, asc |-> TRUE]]_vars

\* C8: from no sort, one selection of a column gives it ascending, a second
\* in a row gives it descending, a third gives no sort again.
C8_SortCycle ==
    /\ streak.n = 1 => sort = [column |-> streak.col, asc |-> TRUE]
    /\ streak.n = 2 => sort = [column |-> streak.col, asc |-> FALSE]
    /\ streak.n = 3 => sort = [column |-> "", asc |-> TRUE]

C8_Witness ==
    /\ streak = [col |-> "upload", n |-> 3]
    /\ sort = [column |-> "", asc |-> TRUE]
    /\ pending = "handleSort"

\* C16: a click on the header of a column outside the sortable set leaves
\* the sort state as it was, and the sort column is always empty or one of
\* the sortable set.
C16_UnsortableIgnored ==
    [][/\ (lastClick' = "noop" /\ pending' = pending) => sort' = sort
       /\ sort'.column \in {""} \cup {"host", "network", "type", "rule", "upload", "download"}]_vars

C16_Witness ==
    /\ lastClick = "noop"
    /\ pending = "none"
    /\ sort = [column |-> "host", asc |-> FALSE]

\* the rendering step: useMemo computes data
Rendering == pending # "none" /\ pending' = "none"

\* C18: computing the rows leaves the array the store returned as it was,
\* the order of its records included.
C18_StoreUntouched == [][Rendering => connections' = connections]_vars

\* C20: whenever the sort column is empty the direction is ascending.
C20_NoSortIsAscending == sort.column = "" => sort.asc

C20_Witness ==
    /\ sort = [column |-> "", asc |-> TRUE]
    /\ lastClick = "handleSort"
    /\ streak = [col |-> "network", n |-> 0]

(***************************************************************************)
(* Properties of the traffic codec (SpecCodec).                            *)
(***************************************************************************)
\* without leading zero digits
RECURSIVE Norm(_)
Norm(s) == IF s # <<>> /\ s[Len(s)] = 0 THEN Norm(SubSeq(s, 1, Len(s) - 1)) ELSE s

\* a - b, for a >= b
RECURSIVE NumSubFrom(_, _, _, _)
NumSubFrom(a, b, i, borrow) ==
    IF i > Len(a) THEN <<>>
    ELSE LET d == a[i] - (IF i <= Len(b) THEN b[i] ELSE 0) - borrow
         IN  IF d < 0 THEN <<d + Radix>> \o NumSubFrom(a, b, i + 1, 1)
             ELSE <<d>> \o NumSubFrom(a, b, i + 1, 0)

NumDist(a, b) ==
    IF NumCmp(a, b) >= 0 THEN Norm(NumSubFrom(a, b, 1, 0))
    ELSE Norm(NumSubFrom(b, a, 1, 0))

\* s * m, for a small m
RECURSIVE NumTimesFrom(_, _, _, _)
NumTimesFrom(s, m, i, carry) ==
    IF i > Len(s) THEN (IF carry = 0 THEN <<>> ELSE NatToNum(carry))
    ELSE LET t == s[i] * m + carry
         IN  <<t % Radix>> \o NumTimesFrom(s, m, i + 1, t \div Radix)

\* C9: the text of a byte count parses back to the count when the unit is
\* B, and to within 0.005 * 1024^k of it when the unit has index k.
C9_RoundTrip ==
    (codec.pc = "parsed" /\ codec.src = "bytes" /\ unitIndexOf(codec.text[2]) >= 0)
        => LET k == unitIndexOf(codec.text[2])
           IN  /\ codec.out.kind = "number"
               /\ IF k = 0 THEN codec.out.value = codec.x
                  ELSE NumCmp(NumTimesFrom(NumDist(codec.out.value, codec.x), 200, 1, 0),
                              Shl(<<1>>, k)) <= 0

\* C10: a text whose unit token is none of B, KB, MB, GB, TB in any case
\* does not parse to a number.
C10_UnknownUnitFails ==
    (codec.pc = "parsed" /\ codec.src = "text" /\ Len(codec.text) = 2
     /\ unitIndexOf(toUpperCase(codec.text[2])) = -1)
        => codec.out.kind # "number"

\* the part of a speed text that C11 calls for, for one rate
PartOf(arrow, rate) ==
    [arrow |-> arrow, traffic |-> formatTraffic(NatToNum(rate)), per |-> "/s"]

\* C11: the speed text is "-" exactly when both rates are zero; with both
\* rates nonzero it is the upload part then the download part; with one rate
\* nonzero it is that rate's part alone; a part is the arrow, the traffic
\* text of the rate and "/s".
C11_SpeedText ==
    codec.pc = "speed"
        => LET u == codec.rates[1]
               d == codec.rates[2]
               r == codec.speed
           IN  /\ (r.text = "-") <=> (u = 0 /\ d = 0)
               /\ (u = 0 /\ d = 0) => r.parts = <<>>
               /\ (u # 0 /\ d # 0) => r.parts = <<PartOf("up", u), PartOf("down", d)>>
               /\ (u # 0 /\ d = 0) => r.parts = <<PartOf("up", u)>>
               /\ (u = 0 /\ d # 0) => r.parts = <<PartOf("down", d)>>

C11_Witness ==
    /\ codec.pc = "speed"
    /\ codec.rates = <<100, 0>>
    /\ codec.speed.parts =
          <<[arrow |-> "up", traffic |-> <<[int |-> <<100>>, frac |-> NoFrac], "B">>,
             per |-> "/s"]>>

(***************************************************************************)
(* Properties of the stream effect (SpecLife).                             *)
(***************************************************************************)
\* C12: once the cleanup of a run of the effect has run and its acquisition
\* has settled, its handler is not subscribed and, when a reader was
\* acquired, the reader is destroyed.
C12_StreamReleased ==
    \A i \in 1..Len(effects) :
        (effects[i].cleaned /\ effects[i].acquisition # "pending")
            => /\ ~effects[i].subscribed
               /\ effects[i].acquisition = "resolved" => effects[i].destroyed

\* what the component renders from: the totals, the rows, the retention
\* flag and the sort state
Rendered == [traffic |-> traffic, data |-> data, save |-> save, sort |-> sort]

\* the acquisition of some run of the effect is rejected in this step
Rejecting ==
    \E i \in 1..Len(effects) :
        /\ effects[i].acquisition = "pending"
        /\ effects'[i].acquisition = "rejected"

\* C19: when the acquisition of the stream is rejected the component comes
\* to a failure state that shows: what it renders from differs from what it
\* rendered from while the acquisition was pending.
C19_FailureShown == [][Rejecting => Rendered' # Rendered]_vars

\* the divisions by 1024 that bring a count below 1024, at most up to TB
UnitIndexOf(x) ==
    IF Len(x) <= 1 THEN 0
    ELSE IF Len(x) - 1 < Len(trafficUnit) THEN Len(x) - 1
    ELSE Len(trafficUnit) - 1

\* C17: the text of a byte count ends with one of B, KB, MB, GB, TB: the
\* unit whose index is the number of divisions by 1024 made while the value
\* is at least 1024 and a larger unit remains.
C17_UnitInRange ==
    (codec.src = "bytes" /\ codec.pc \in {"text", "parsed"})
        => /\ codec.text[2] \in {"B", "KB", "MB", "GB", "TB"}
           /\ codec.text[2] = trafficUnit[UnitIndexOf(codec.x) + 1]

====
